---- MODULE Spec2Model ----
(***************************************************************************)
(* A model of app.py, the Streamlit script "Clinical Trial MOA Mapper".    *)
(*                                                                         *)
(* One click on "Run analysis" executes the script top to bottom:          *)
(*   disease overview (LLM) -> paginated registry fetch -> intervention    *)
(*   extraction -> deduplicated table -> MOA analysis (LLM) ->             *)
(*   MOA classification (LLM, parse, apply) -> chart -> success.           *)
(*                                                                         *)
(* Encoding of the data the script handles:                                *)
(*   - a JSON object is a function from its keys to values; a key that is  *)
(*     missing is missing from DOMAIN; the empty object is <<>>;           *)
(*   - a JSON array is a sequence;                                         *)
(*   - a JSON null standing where an object is expected is NotDict;        *)
(*   - strings that the script takes apart (drug names, the classifier's   *)
(*     answer, dates) are sequences of one-character strings; strings it   *)
(*     only compares (types, labels, phases, sponsors) are TLA+ strings.   *)
(***************************************************************************)
EXTENDS Integers, Sequences, FiniteSets, TLC

\* ------------------------------------------------------------------------
\* Bounds of the model (not program constants)
\* ------------------------------------------------------------------------
MaxPages == 3
MaxTrials == 2
MaxRows == 3
MaxText == 6

\* ------------------------------------------------------------------------
\* Program constants
\* ------------------------------------------------------------------------
HttpOk == 200
DigestRows == 20
YearLen == 4

\* ------------------------------------------------------------------------
\* Python and JSON helpers
\* ------------------------------------------------------------------------
NotDict == [null |-> TRUE]
EmptyDict == <<>>
None == "None"

IsDict(x) == "null" \notin DOMAIN x
Has(d, k) == k \in DOMAIN d
\* dict.get(k, default)
Get(d, k, default) == IF k \in DOMAIN d THEN d[k] ELSE default
\* bool(token): None and the empty string are falsy
Truthy(tok) == tok # None /\ tok # ""

Range(s) == {s[i] : i \in DOMAIN s}
SeqsUpTo(S, n) == UNION {[1..k -> S] : k \in 0..n}
Last(s) == s[Len(s)]
Min(a, b) == IF a < b THEN a ELSE b

\* s[:n]
Prefix(s, n) == SubSeq(s, 1, Min(n, Len(s)))

\* str.strip() over the model's alphabet, whose only whitespace is " "
RECURSIVE LStrip(_)
LStrip(s) == IF s # <<>> /\ Head(s) = " " THEN LStrip(Tail(s)) ELSE s
RECURSIVE RStrip(_)
RStrip(s) ==
  IF s # <<>> /\ s[Len(s)] = " " THEN RStrip(SubSeq(s, 1, Len(s) - 1)) ELSE s
Strip(s) == RStrip(LStrip(s))

\* position of the first occurrence of c in s, 0 when there is none
RECURSIVE FindFrom(_, _, _)
FindFrom(s, c, i) ==
  IF i > Len(s) THEN 0 ELSE IF s[i] = c THEN i ELSE FindFrom(s, c, i + 1)
Find(s, c) == FindFrom(s, c, 1)

\* str.splitlines(): break at every "\n"; no empty last line
RECURSIVE SplitLines(_)
SplitLines(s) ==
  IF s = <<>> THEN <<>>
  ELSE LET n == Find(s, "\n")
       IN  IF n = 0 THEN <<s>>
           ELSE <<SubSeq(s, 1, n - 1)>> \o SplitLines(SubSeq(s, n + 1, Len(s)))

Unknown == <<"U", "n", "k", "n", "o", "w", "n">>
Other == <<"O", "t", "h", "e", "r">>

\* ------------------------------------------------------------------------
\* Intervention extraction (one trial record)
\* ------------------------------------------------------------------------
ExperimentalTypes == {"EXPERIMENTAL", "ACTIVE_COMPARATOR"}

\* a.get("type") in ["EXPERIMENTAL", "ACTIVE_COMPARATOR"]
IsExperimental(a) == Get(a, "type", None) \in ExperimentalTypes

\* intervention.get("type") == "DRUG"
IsDrug(iv) == Get(iv, "type", None) = "DRUG"

\* Qualifies with a subset test in place of the intersection test
QualifiesSubset(arm_labels, experimental_labels) ==
  \A i \in DOMAIN arm_labels : arm_labels[i] \in Range(experimental_labels)

\* any(lbl in experimental_labels for lbl in arm_labels)
Qualifies(arm_labels, experimental_labels) ==
  \E i \in DOMAIN arm_labels : arm_labels[i] \in Range(experimental_labels)

\* An expression that may raise yields [ok, val]; ok = FALSE is the exception.
Raised(dummy) == [ok |-> FALSE, val |-> dummy]
Value(v) == [ok |-> TRUE, val |-> v]

\* protocol["designModule"].get("phases", ["Unknown"])[0]
Phase(protocol) ==
  IF ~Has(protocol, "designModule") THEN Raised("")
  ELSE LET phases == Get(protocol["designModule"], "phases", <<"Unknown">>)
       IN  IF Len(phases) = 0 THEN Raised("") ELSE Value(phases[1])

\* protocol["statusModule"].get("startDateStruct", {}).get("date", "")[:4]
Year(protocol) ==
  IF ~Has(protocol, "statusModule") THEN Raised(<<>>)
  ELSE Value(Prefix(Get(Get(protocol["statusModule"], "startDateStruct", EmptyDict),
                        "date", <<>>), YearLen))

\* protocol["sponsorCollaboratorsModule"]["leadSponsor"]["name"]
Sponsor(protocol) ==
  IF ~Has(protocol, "sponsorCollaboratorsModule") THEN Raised("")
  ELSE IF ~Has(protocol["sponsorCollaboratorsModule"], "leadSponsor") THEN Raised("")
  ELSE IF ~Has(protocol["sponsorCollaboratorsModule"]["leadSponsor"], "name")
       THEN Raised("")
  ELSE Value(protocol["sponsorCollaboratorsModule"]["leadSponsor"]["name"])

\* the dict literal appended for a kept intervention; it is built, and may
\* raise, before list.append runs
MakeRow(protocol, iv) ==
  LET ph == Phase(protocol)
      yr == Year(protocol)
      sp == Sponsor(protocol)
  IN  [ok  |-> ph.ok /\ yr.ok /\ sp.ok,
       val |-> [drug        |-> Get(iv, "name", Unknown),
                description |-> Get(iv, "description", ""),
                phase       |-> ph.val,
                year        |-> yr.val,
                sponsor     |-> sp.val]]

\* for intervention in trial_interventions, from position k on.  rows are the
\* rows appended so far by this trial and srcs the positions of the
\* interventions they came from.  An exception leaves the loop with the rows
\* appended before it still in the list.
RECURSIVE InterventionLoop(_, _, _, _, _, _)
InterventionLoop(protocol, experimental_labels, ivs, k, rows, srcs) ==
  IF k > Len(ivs) THEN [rows |-> rows, srcs |-> srcs, raised |-> FALSE]
  ELSE LET iv == ivs[k]
       IN  IF ~IsDict(iv) THEN [rows |-> rows, srcs |-> srcs, raised |-> TRUE]
           ELSE IF IsDrug(iv)
                   /\ Qualifies(Get(iv, "armGroupLabels", <<>>), experimental_labels)
           THEN LET r == MakeRow(protocol, iv)
                IN  IF ~r.ok THEN [rows |-> rows, srcs |-> srcs, raised |-> TRUE]
                    ELSE InterventionLoop(protocol, experimental_labels, ivs, k + 1,
                                          Append(rows, r.val), Append(srcs, k))
           ELSE InterventionLoop(protocol, experimental_labels, ivs, k + 1, rows, srcs)

\* the body of the try block for one trial
ExtractOne(trial) ==
  LET nothing == [rows |-> <<>>, srcs |-> <<>>, raised |-> TRUE]
  IN
  IF ~Has(trial, "protocolSection") THEN nothing
  ELSE LET protocol == trial["protocolSection"]
           aim == Get(protocol, "armsInterventionsModule", EmptyDict)
           arms == Get(aim, "armGroups", <<>>)
       IN  IF \E i \in DOMAIN arms : ~IsDict(arms[i]) THEN nothing
           ELSE LET experimental_arms == SelectSeq(arms, IsExperimental)
                IN  IF \E i \in DOMAIN experimental_arms :
                         ~Has(experimental_arms[i], "label")
                    THEN nothing
                    ELSE InterventionLoop(
                           protocol,
                           [i \in DOMAIN experimental_arms |->
                              experimental_arms[i]["label"]],
                           Get(aim, "interventions", <<>>), 1, <<>>, <<>>)

\* ------------------------------------------------------------------------
\* The candidate table
\* ------------------------------------------------------------------------
Key(row) == <<row.drug, row.sponsor, row.phase>>

\* drop_duplicates with keep="last" in place of the default
DropDuplicatesKeepLast(rows) ==
  LET keep == {i \in DOMAIN rows : \A j \in DOMAIN rows : j > i => Key(rows[j]) # Key(rows[i])}
      F[i \in 0..Len(rows)] ==
        IF i = 0 THEN <<>>
        ELSE IF i \in keep THEN Append(F[i - 1], rows[i]) ELSE F[i - 1]
  IN  F[Len(rows)]

\* DataFrame.drop_duplicates(subset=["drug", "sponsor", "phase"]) with its
\* default keep="first", then reset_index(drop=True)
RECURSIVE DropFrom(_, _, _)
DropFrom(rows, seen, out) ==
  IF rows = <<>> THEN out
  ELSE IF Key(Head(rows)) \in seen THEN DropFrom(Tail(rows), seen, out)
  ELSE DropFrom(Tail(rows), seen \cup {Key(Head(rows))}, Append(out, Head(rows)))
DropDuplicates(rows) == DropFrom(rows, {}, <<>>)

RowColumns == {"drug", "description", "phase", "year", "sponsor"}

\* pd.DataFrame(list of dicts): the columns are the keys of the dicts, so no
\* rows means no columns either (drop_duplicates returns an empty frame as is)
DataFrame(rows) ==
  [columns |-> IF rows = <<>> THEN {} ELSE RowColumns, rows |-> rows]

\* pd.DataFrame(interventions).drop_duplicates(...).reset_index(drop=True)
MakeTable(rows) == DataFrame(DropDuplicates(rows))

\* the lines "- {drug} ({sponsor}, Phase {phase}, {year})" of df.head(20)
Digest(table) ==
  [i \in 1..Min(DigestRows, Len(table.rows)) |->
     <<table.rows[i].drug, table.rows[i].sponsor,
       table.rows[i].phase, table.rows[i].year>>]

\* ------------------------------------------------------------------------
\* MOA classification: parsing the answer and filling the table
\* ------------------------------------------------------------------------
\* line.rsplit(":", 1) in place of line.split(":", 1)
SplitLastColon(line) ==
  LET c == CHOOSE i \in DOMAIN line :
             line[i] = ":" /\ \A j \in DOMAIN line : line[j] = ":" => j <= i
  IN  <<SubSeq(line, 1, c - 1), SubSeq(line, c + 1, Len(line))>>

\* line.split(":", 1), for a line that holds a colon
SplitColon(line) ==
  LET c == Find(line, ":")
  IN  <<SubSeq(line, 1, c - 1), SubSeq(line, c + 1, Len(line))>>

\* moa_map[key] = value
Put(map, key, value) ==
  [k \in DOMAIN map \cup {key} |-> IF k = key THEN value ELSE map[k]]

\* the body of "for line in moa_labels.splitlines()"
ParseLine(map, line) ==
  IF Find(line, ":") = 0 THEN map
  ELSE LET parts == SplitColon(line)
       IN  Put(map, Strip(parts[1]), Strip(parts[2]))

RECURSIVE ParseLines(_, _)
ParseLines(map, lines) ==
  IF lines = <<>> THEN map
  ELSE ParseLines(ParseLine(map, Head(lines)), Tail(lines))

\* moa_map = {} and the loop over moa_labels.splitlines()
ParseLabels(text) == ParseLines(EmptyDict, SplitLines(text))

\* df["drug"].map(moa_map).fillna("Other"), for one drug
MoaOf(map, drug) == IF drug \in DOMAIN map THEN map[drug] ELSE Other

\* df["moa"] = df["drug"].map(moa_map).fillna("Other")
ApplyMoa(table, map) ==
  [columns |-> table.columns \cup {"moa"},
   rows    |-> [i \in DOMAIN table.rows |->
                  [drug        |-> table.rows[i].drug,
                   description |-> table.rows[i].description,
                   phase       |-> table.rows[i].phase,
                   year        |-> table.rows[i].year,
                   sponsor     |-> table.rows[i].sponsor,
                   moa         |-> MoaOf(map, table.rows[i].drug)]]]

\* df.groupby(["phase", "moa"]).size().unstack(fill_value=0)
PhaseMoa(table) ==
  LET rows == table.rows
      phases == {rows[i].phase : i \in DOMAIN rows}
      moas == {rows[i].moa : i \in DOMAIN rows}
  IN  [p \in phases |->
         [m \in moas |->
            Cardinality({i \in DOMAIN rows : rows[i].phase = p /\ rows[i].moa = m})]]

\* ------------------------------------------------------------------------
\* The two external services
\* ------------------------------------------------------------------------
\* llm(): "if r.status_code != 200: st.error; st.code; st.stop()", with the
\* status check left out
LlmNeverHalts(status) == FALSE

\* llm(): r.status_code != 200
LlmHalts(status) == status # HttpOk

PageSize == 100

\* the query parameters of a registry request that do not change
BaseParams == [pageSize |-> PageSize, format |-> "json"]

\* the request parameters with the pageToken never added
RequestParamsNoToken(tok) == BaseParams

\* params = {...}; if page_token: params["pageToken"] = page_token
RequestParams(tok) ==
  IF Truthy(tok) THEN ("pageToken" :> tok) @@ BaseParams ELSE BaseParams

\* ------------------------------------------------------------------------
\* Inputs: what the registry and the language model may answer
\* ------------------------------------------------------------------------
Statuses == {200, 401, 500}

With(d, k, v) == (k :> v) @@ d
Without(d, k) == [x \in DOMAIN d \ {k} |-> d[x]]

Date2022 == <<"2", "0", "2", "2", "-", "0", "6">>

\* the design, status and sponsor modules of a well-formed trial
Modules(phases, sponsor) ==
  [designModule |-> [phases |-> phases],
   statusModule |-> [startDateStruct |-> [date |-> Date2022]],
   sponsorCollaboratorsModule |-> [leadSponsor |-> [name |-> sponsor]]]

TrialOf(arms, ivs, modules) ==
  [protocolSection |->
     With(modules, "armsInterventionsModule",
          [armGroups |-> arms, interventions |-> ivs])]

Arm(type, label) == [type |-> type, label |-> label]
Drug(name, description, labels) ==
  [type |-> "DRUG", name |-> name, description |-> description,
   armGroupLabels |-> labels]

BaseModules == Modules(<<"PHASE2", "PHASE3">>, "Acme")

\* the well-formed modules and every way of missing one nested field
ModuleVariants ==
  { BaseModules,
    With(BaseModules, "designModule", EmptyDict),
    With(BaseModules, "designModule", [phases |-> <<>>]),
    Without(BaseModules, "designModule"),
    With(BaseModules, "statusModule", EmptyDict),
    Without(BaseModules, "statusModule"),
    With(BaseModules, "sponsorCollaboratorsModule", [leadSponsor |-> EmptyDict]),
    With(BaseModules, "sponsorCollaboratorsModule", EmptyDict),
    Without(BaseModules, "sponsorCollaboratorsModule") }

BaseArms == <<Arm("EXPERIMENTAL", "A"), Arm("PLACEBO_COMPARATOR", "B")>>

ArmLists ==
  { BaseArms,
    <<Arm("ACTIVE_COMPARATOR", "A")>>,
    <<Arm("EXPERIMENTAL", "C"), Arm("PLACEBO_COMPARATOR", "A")>>,
    <<Arm("PLACEBO_COMPARATOR", "A"), [label |-> "B"]>>,
    <<Arm("EXPERIMENTAL", "A"), [type |-> "EXPERIMENTAL"]>>,
    <<Arm("EXPERIMENTAL", "A"), NotDict>> }

IvLists ==
  { <<Drug(<<"A">>, "d1", <<"A">>)>>,
    <<Drug(<<"A">>, "d1", <<"B", "A">>), Drug(<<"A">>, "d2", <<"A">>)>>,
    <<[type |-> "DEVICE", name |-> <<"A">>, armGroupLabels |-> <<"A">>],
      Drug(<<"B">>, "d1", <<"B">>)>>,
    <<Drug(<<"A">>, "d1", <<"A">>), NotDict>>,
    <<NotDict, Drug(<<"A">>, "d1", <<"A">>)>>,
    <<[type |-> "DRUG", armGroupLabels |-> <<"A">>]>>,
    <<[type |-> "DRUG", name |-> <<"A">>], Drug(<<"B">>, "d1", <<"A">>)>> }

\* trial records for the extraction: every intervention list under every
\* module variant, every arm list over two intervention lists, a record with
\* no protocol section and one with no arms/interventions module
ExtractTrials ==
  {TrialOf(BaseArms, ivs, m) : ivs \in IvLists, m \in ModuleVariants}
  \cup {TrialOf(arms, ivs, BaseModules) :
          arms \in ArmLists,
          ivs \in { <<Drug(<<"A">>, "d1", <<"A">>)>>,
                    <<Drug(<<"A">>, "d1", <<"B", "A">>),
                      Drug(<<"A">>, "d2", <<"A">>)>> }}
  \cup {EmptyDict, [protocolSection |-> BaseModules]}

\* a well-formed trial whose one qualifying intervention yields the given row
TrialFor(drug, description, phase, sponsor) ==
  TrialOf(BaseArms, <<Drug(drug, description, <<"A">>)>>, Modules(<<phase>>, sponsor))

\* trial records for the table: rows that share or differ in each key field
RowTrials ==
  {TrialFor(drug, d, p, sp) :
     drug \in {<<"A">>, <<"B">>}, d \in {"d1", "d2"},
     p \in {"PHASE2", "PHASE3"}, sp \in {"Acme", "Beta"}}

\* drug names for the classification; one carries leading whitespace
DrugNames == {<<"A">>, <<" ", "A">>, <<"A", "A">>}
DrugTrials == {TrialFor(drug, "d1", "PHASE2", "Acme") : drug \in DrugNames}

\* the characters of a classifier answer, "\n" being the line break
Alphabet == {"A", " ", ":", "\n"}
AllTexts == SeqsUpTo(Alphabet, MaxText)

\* the registry pages and the classifier answers of a whole run
RunTrials == {TrialFor(<<"A">>, "d1", "PHASE2", "Acme"), EmptyDict}
Tokens == {"", "t1", "t2"}
RunPages ==
  LET studies == {<<>>} \cup {<<t>> : t \in RunTrials}
      bodies == {EmptyDict} \cup {[studies |-> st] : st \in studies}
  IN  bodies \cup {With(b, "nextPageToken", tok) : b \in bodies, tok \in Tokens}
RunTexts == {<<>>, <<"A", ":", "A">>, <<"A", ":">>}

\* ------------------------------------------------------------------------
\* State
\* ------------------------------------------------------------------------
VARIABLES
  pc,            \* where the script is: idle, overview, fetch, extract,
                 \* analysis, classify, chart, done, stopped, crashed
  shown,         \* the elements rendered on the page, in order
  llm_calls,     \* the language-model requests made, with their status
  requests,      \* the parameters of the registry requests made
  responses,     \* the registry pages received
  all_trials,
  page_token,
  trial_idx,     \* position of "for trial in all_trials"
  interventions,
  origin,        \* for each row of interventions: <<trial, intervention>>
  skipped,       \* the trials whose try block ended in "except"
  df,
  moa_labels,
  moa_map,
  phase_moa

vars == <<pc, shown, llm_calls, requests, responses, all_trials, page_token,
          trial_idx, interventions, origin, skipped, df, moa_labels, moa_map,
          phase_moa>>

Terminal == {"done", "stopped", "crashed"}

\* nothing of a run exists yet
Fresh(p) ==
  /\ pc = p
  /\ shown = <<>>
  /\ llm_calls = <<>>
  /\ requests = <<>>
  /\ responses = <<>>
  /\ all_trials = <<>>
  /\ page_token = None
  /\ trial_idx = 1
  /\ interventions = <<>>
  /\ origin = <<>>
  /\ skipped = {}
  /\ df = DataFrame(<<>>)
  /\ moa_labels = <<>>
  /\ moa_map = EmptyDict
  /\ phase_moa = EmptyDict

Init == Fresh("idle")

LlmCall(site, prompt, status) == [site |-> site, prompt |-> prompt, status |-> status]

\* ------------------------------------------------------------------------
\* The script, stage by stage
\* ------------------------------------------------------------------------
\* the button is clicked: the script runs again from the top, nothing kept
Run ==
  /\ pc \in {"idle"} \cup Terminal
  /\ pc' = "overview"
  /\ shown' = <<>>
  /\ llm_calls' = <<>>
  /\ requests' = <<>>
  /\ responses' = <<>>
  /\ all_trials' = <<>>
  /\ page_token' = None
  /\ trial_idx' = 1
  /\ interventions' = <<>>
  /\ origin' = <<>>
  /\ skipped' = {}
  /\ df' = DataFrame(<<>>)
  /\ moa_labels' = <<>>
  /\ moa_map' = EmptyDict
  /\ phase_moa' = EmptyDict

\* section 1, and the set-up of the fetch
Overview ==
  /\ pc = "overview"
  /\ \E status \in Statuses :
       /\ llm_calls' = Append(llm_calls, LlmCall("overview", <<>>, status))
       /\ IF LlmHalts(status)
          THEN /\ shown' = shown \o <<"subheader 1", "error", "code">>
               /\ pc' = "stopped"
               /\ UNCHANGED <<all_trials, page_token>>
          ELSE /\ shown' = shown \o <<"subheader 1", "overview", "subheader 2">>
               /\ pc' = "fetch"
               /\ all_trials' = <<>>
               /\ page_token' = None
  /\ UNCHANGED <<requests, responses, trial_idx, interventions, origin, skipped,
                 df, moa_labels, moa_map, phase_moa>>

\* one turn of "while True": a request, its page, and the break
FetchPage(pages) ==
  /\ pc = "fetch"
  /\ Len(requests) < MaxPages
  /\ \E data \in pages :
       /\ requests' = Append(requests, RequestParams(page_token))
       /\ responses' = Append(responses, data)
       /\ all_trials' = all_trials \o Get(data, "studies", <<>>)
       /\ page_token' = Get(data, "nextPageToken", None)
  /\ IF Truthy(page_token')
     THEN /\ pc' = "fetch"
          /\ UNCHANGED <<shown, interventions>>
     ELSE /\ pc' = "extract"
          /\ shown' = shown \o <<"found", "subheader 3">>
          /\ interventions' = <<>>
  /\ UNCHANGED <<llm_calls, trial_idx, origin, skipped, df, moa_labels, moa_map,
                 phase_moa>>

\* one turn of "for trial in all_trials"
ExtractTrial ==
  /\ pc = "extract"
  /\ trial_idx <= Len(all_trials)
  /\ LET r == ExtractOne(all_trials[trial_idx])
     IN  /\ interventions' = interventions \o r.rows
         /\ origin' = origin \o [i \in DOMAIN r.srcs |-> <<trial_idx, r.srcs[i]>>]
         /\ skipped' = IF r.raised THEN skipped \cup {trial_idx} ELSE skipped
  /\ trial_idx' = trial_idx + 1
  /\ UNCHANGED <<pc, shown, llm_calls, requests, responses, all_trials,
                 page_token, df, moa_labels, moa_map, phase_moa>>

\* the loop is over: the table is built and shown
BuildTable ==
  /\ pc = "extract"
  /\ trial_idx > Len(all_trials)
  /\ df' = MakeTable(interventions)
  /\ shown' = shown \o <<"extracted", "table">>
  /\ pc' = "analysis"
  /\ UNCHANGED <<llm_calls, requests, responses, all_trials, page_token,
                 trial_idx, interventions, origin, skipped, moa_labels, moa_map,
                 phase_moa>>

\* section 4
Analysis ==
  /\ pc = "analysis"
  /\ \E status \in Statuses :
       /\ llm_calls' = Append(llm_calls, LlmCall("analysis", Digest(df), status))
       /\ IF LlmHalts(status)
          THEN /\ shown' = shown \o <<"subheader 4", "error", "code">>
               /\ pc' = "stopped"
          ELSE /\ shown' = shown \o <<"subheader 4", "analysis">>
               /\ pc' = "classify"
  /\ UNCHANGED <<requests, responses, all_trials, page_token, trial_idx,
                 interventions, origin, skipped, df, moa_labels, moa_map,
                 phase_moa>>

\* section 5: the call, the parse of its answer, the new column.  A table
\* built from no rows has no "drug" column and df["drug"] raises KeyError.
Classification(texts) ==
  /\ pc = "classify"
  /\ \E status \in Statuses :
       /\ llm_calls' = Append(llm_calls, LlmCall("classification", Digest(df), status))
       /\ IF LlmHalts(status)
          THEN /\ shown' = shown \o <<"subheader 5", "error", "code">>
               /\ pc' = "stopped"
               /\ UNCHANGED <<df, moa_labels, moa_map>>
          ELSE \E text \in texts :
                 /\ moa_labels' = text
                 /\ moa_map' = ParseLabels(text)
                 /\ IF "drug" \in df.columns
                    THEN /\ df' = ApplyMoa(df, moa_map')
                         /\ shown' = shown \o <<"subheader 5", "moa table">>
                         /\ pc' = "chart"
                    ELSE /\ df' = df
                         /\ shown' = shown \o <<"subheader 5">>
                         /\ pc' = "crashed"
  /\ UNCHANGED <<requests, responses, all_trials, page_token, trial_idx,
                 interventions, origin, skipped, phase_moa>>

\* section 6 and the closing message
Chart ==
  /\ pc = "chart"
  /\ phase_moa' = PhaseMoa(df)
  /\ shown' = shown \o <<"subheader 6", "chart", "complete">>
  /\ pc' = "done"
  /\ UNCHANGED <<llm_calls, requests, responses, all_trials, page_token,
                 trial_idx, interventions, origin, skipped, df, moa_labels,
                 moa_map>>

RunFetch == FetchPage(RunPages)
RunClassification == Classification(RunTexts)
AnyClassification == Classification(AllTexts)

\* a whole run
Next ==
  \/ Run
  \/ Overview
  \/ RunFetch
  \/ ExtractTrial
  \/ BuildTable
  \/ Analysis
  \/ RunClassification
  \/ Chart

Spec == Init /\ [][Next]_vars

\* ------------------------------------------------------------------------
\* The stages on their own, from the states a run reaches before them
\* ------------------------------------------------------------------------
\* the state when the fetch has ended after one page holding these trials
AfterFetch(trials) ==
  /\ pc = "extract"
  /\ shown = <<"subheader 1", "overview", "subheader 2", "found", "subheader 3">>
  /\ llm_calls = <<LlmCall("overview", <<>>, HttpOk)>>
  /\ requests = <<RequestParams(None)>>
  /\ responses = <<[studies |-> trials]>>
  /\ all_trials = trials
  /\ page_token = None
  /\ trial_idx = 1
  /\ interventions = <<>>
  /\ origin = <<>>
  /\ skipped = {}
  /\ df = DataFrame(<<>>)
  /\ moa_labels = <<>>
  /\ moa_map = EmptyDict
  /\ phase_moa = EmptyDict

\* the whole loop "for trial in all_trials", from trial t on
RECURSIVE ExtractAll(_, _, _)
ExtractAll(trials, t, acc) ==
  IF t > Len(trials) THEN acc
  ELSE LET r == ExtractOne(trials[t])
       IN  ExtractAll(trials, t + 1,
             [interventions |-> acc.interventions \o r.rows,
              origin |-> acc.origin \o [i \in DOMAIN r.srcs |-> <<t, r.srcs[i]>>],
              skipped |-> IF r.raised THEN acc.skipped \cup {t} ELSE acc.skipped])

\* the state when the analysis has been answered, after one page of trials
AfterAnalysis(trials) ==
  LET x == ExtractAll(trials, 1, [interventions |-> <<>>, origin |-> <<>>, skipped |-> {}])
      table == MakeTable(x.interventions)
  IN  /\ pc = "classify"
      /\ shown = <<"subheader 1", "overview", "subheader 2", "found", "subheader 3",
                   "extracted", "table", "subheader 4", "analysis">>
      /\ llm_calls = <<LlmCall("overview", <<>>, HttpOk),
                       LlmCall("analysis", Digest(table), HttpOk)>>
      /\ requests = <<RequestParams(None)>>
      /\ responses = <<[studies |-> trials]>>
      /\ all_trials = trials
      /\ page_token = None
      /\ trial_idx = Len(trials) + 1
      /\ interventions = x.interventions
      /\ origin = x.origin
      /\ skipped = x.skipped
      /\ df = table
      /\ moa_labels = <<>>
      /\ moa_map = EmptyDict
      /\ phase_moa = EmptyDict

\* extraction and table over any list of trial records
InitExtract == \E trials \in SeqsUpTo(ExtractTrials, MaxTrials) : AfterFetch(trials)
NextExtract == ExtractTrial \/ BuildTable
SpecExtract == InitExtract /\ [][NextExtract]_vars

\* extraction and table over trials whose rows share or differ in their keys
InitTable == \E trials \in SeqsUpTo(RowTrials, MaxRows) : AfterFetch(trials)
SpecTable == InitTable /\ [][NextExtract]_vars

\* classification over any answer of the language model
InitClassify == \E trials \in SeqsUpTo(DrugTrials, MaxTrials) : AfterAnalysis(trials)
NextClassify == AnyClassification \/ Chart
SpecClassify == InitClassify /\ [][NextClassify]_vars

\* ========================================================================
\* Properties
\* ========================================================================
\* the concatenation of a sequence of sequences
RECURSIVE Concat(_)
Concat(ss) == IF ss = <<>> THEN <<>> ELSE Head(ss) \o Concat(Tail(ss))

StudiesOf(resp) == IF "studies" \in DOMAIN resp THEN resp["studies"] ELSE <<>>
CarriesToken(resp) == "nextPageToken" \in DOMAIN resp
CarriesNonEmptyToken(resp) ==
  "nextPageToken" \in DOMAIN resp /\ resp["nextPageToken"] # ""
FetchOver == "found" \in Range(shown)

\* What the fetch loop guarantees, an empty nextPageToken counting as a token
\* carried (emptyCounts) or not:
\* one request per response, the first without pageToken, each later one
\* with the token of the response before it, the trials accumulated in
\* response order, the loop going on after a response that carries a token
\* and over only after one that does not.
FetchContract(emptyCounts) ==
  LET Carries(resp) ==
        IF emptyCounts THEN CarriesToken(resp) ELSE CarriesNonEmptyToken(resp)
  IN
  /\ Len(requests) = Len(responses)
  /\ requests # <<>> => "pageToken" \notin DOMAIN requests[1]
  /\ \A i \in 2..Len(requests) :
       /\ "pageToken" \in DOMAIN requests[i]
       /\ CarriesToken(responses[i - 1])
       /\ requests[i]["pageToken"] = responses[i - 1]["nextPageToken"]
  /\ all_trials = Concat([i \in DOMAIN responses |-> StudiesOf(responses[i])])
  /\ \A i \in 1..(Len(responses) - 1) : Carries(responses[i])
  /\ (pc = "fetch" /\ responses # <<>>) => Carries(Last(responses))
  /\ FetchOver => responses # <<>> /\ ~Carries(Last(responses))

\* C1, as amended: the fetch is exhaustive over every sequence of responses
\* in which every response but the last carries a non-empty nextPageToken;
\* it stops after the first response whose nextPageToken is absent or empty.
C1_ExhaustiveFetch == FetchContract(FALSE)

\* C1 as stated: the loop ends only at a response that has no nextPageToken.
C1_StopsOnlyWhenTokenAbsent == FetchContract(TRUE)

C1_ThreePagesFetched ==
  /\ FetchOver
  /\ Len(responses) = 3
  /\ responses[1]["nextPageToken"] # responses[2]["nextPageToken"]
  /\ \A i \in 1..3 : StudiesOf(responses[i]) # <<>>
  /\ all_trials[1] # all_trials[2]

SubheaderOf(site) ==
  CASE site = "overview" -> "subheader 1"
    [] site = "analysis" -> "subheader 4"
    [] site = "classification" -> "subheader 5"

\* what must not be on the page when the call of this site has failed
LaterThan(site) ==
  CASE site = "overview" ->
         {"overview", "subheader 2", "found", "subheader 3", "extracted", "table",
          "subheader 4", "analysis", "subheader 5", "moa table", "subheader 6",
          "chart", "complete"}
    [] site = "analysis" ->
         {"analysis", "subheader 5", "moa table", "subheader 6", "chart", "complete"}
    [] site = "classification" -> {"moa table", "subheader 6", "chart", "complete"}

\* C6: a language-model call that returns a status other than 200 is the
\* last thing the run does: the call is made once, the error is shown, no
\* later stage runs (no registry request after a failed overview, no further
\* model call, table or chart) and the closing message is never shown.
C6_FailFast ==
  /\ \A i, j \in DOMAIN llm_calls : i # j => llm_calls[i].site # llm_calls[j].site
  /\ \A i \in DOMAIN llm_calls :
       llm_calls[i].status # 200 =>
         /\ i = Len(llm_calls)
         /\ pc = "stopped"
         /\ Len(shown) >= 3
         /\ SubSeq(shown, Len(shown) - 2, Len(shown))
              = <<SubheaderOf(llm_calls[i].site), "error", "code">>
         /\ Range(shown) \cap LaterThan(llm_calls[i].site) = {}
         /\ llm_calls[i].site = "overview" => requests = <<>>
         /\ "moa" \notin df.columns
         /\ moa_map = EmptyDict
         /\ phase_moa = EmptyDict

C6_ClassificationFailed ==
  /\ pc = "stopped"
  /\ Len(llm_calls) = 3
  /\ llm_calls[3].status = 500
  /\ Len(df.rows) > 0

FullPage ==
  <<"subheader 1", "overview", "subheader 2", "found", "subheader 3",
    "extracted", "table", "subheader 4", "analysis", "subheader 5",
    "moa table", "subheader 6", "chart", "complete">>

\* C7: a run in which every model call returns 200 and every registry page
\* is well formed ends with the closing message, all stages shown in order,
\* also when no candidate row was extracted.
C7_CleanRunCompletes ==
  (pc \in Terminal /\ \A i \in DOMAIN llm_calls : llm_calls[i].status = 200)
    => (pc = "done" /\ shown = FullPage)

\* --- extraction ---------------------------------------------------------
ArmsOf(trial) ==
  IF "protocolSection" \in DOMAIN trial
     /\ "armsInterventionsModule" \in DOMAIN trial["protocolSection"]
     /\ "armGroups" \in DOMAIN trial["protocolSection"]["armsInterventionsModule"]
  THEN trial["protocolSection"]["armsInterventionsModule"]["armGroups"]
  ELSE <<>>

InterventionsOf(trial) ==
  IF "protocolSection" \in DOMAIN trial
     /\ "armsInterventionsModule" \in DOMAIN trial["protocolSection"]
     /\ "interventions" \in DOMAIN trial["protocolSection"]["armsInterventionsModule"]
  THEN trial["protocolSection"]["armsInterventionsModule"]["interventions"]
  ELSE <<>>

\* the labels of the trial's EXPERIMENTAL and ACTIVE_COMPARATOR arms
ExperimentalLabelSet(trial) ==
  {ArmsOf(trial)[a]["label"] :
     a \in {b \in DOMAIN ArmsOf(trial) :
              /\ "type" \in DOMAIN ArmsOf(trial)[b]
              /\ ArmsOf(trial)[b]["type"] \in {"EXPERIMENTAL", "ACTIVE_COMPARATOR"}
              /\ "label" \in DOMAIN ArmsOf(trial)[b]}}

\* intervention k of the trial is a DRUG with a label of an experimental arm
QualifyingIntervention(trial, k) ==
  LET iv == InterventionsOf(trial)[k]
  IN  /\ "type" \in DOMAIN iv
      /\ iv["type"] = "DRUG"
      /\ "armGroupLabels" \in DOMAIN iv
      /\ \E j \in DOMAIN iv["armGroupLabels"] :
           iv["armGroupLabels"][j] \in ExperimentalLabelSet(trial)

\* every nested field the extraction reads is there, but for the phases,
\* which may be absent or an empty list
WellFormedButPhases(trial) ==
  /\ "protocolSection" \in DOMAIN trial
  /\ \A a \in DOMAIN ArmsOf(trial) :
       {"type", "label"} \subseteq DOMAIN ArmsOf(trial)[a]
  /\ \A k \in DOMAIN InterventionsOf(trial) :
       "type" \in DOMAIN InterventionsOf(trial)[k]
  /\ {"designModule", "statusModule", "sponsorCollaboratorsModule"}
       \subseteq DOMAIN trial["protocolSection"]
  /\ "leadSponsor" \in DOMAIN trial["protocolSection"]["sponsorCollaboratorsModule"]
  /\ "name" \in DOMAIN
       trial["protocolSection"]["sponsorCollaboratorsModule"]["leadSponsor"]

PhasesOf(trial) ==
  IF "phases" \in DOMAIN trial["protocolSection"]["designModule"]
  THEN trial["protocolSection"]["designModule"]["phases"]
  ELSE <<>>

WellFormed(trial) ==
  /\ WellFormedButPhases(trial)
  /\ "phases" \in DOMAIN trial["protocolSection"]["designModule"]
       => PhasesOf(trial) # <<>>

Processed(t) == t \in DOMAIN all_trials /\ (pc # "extract" \/ t < trial_idx)

\* C2: every row comes from a DRUG intervention with at least one arm-group
\* label that is the label of an EXPERIMENTAL or ACTIVE_COMPARATOR arm of the
\* same trial, each intervention giving at most one row; and in a well-formed
\* trial every such intervention gives a row, one matching label being enough.
C2_ExperimentalArmGating ==
  /\ Len(origin) = Len(interventions)
  /\ \A i \in DOMAIN interventions :
       LET t == origin[i][1]
           k == origin[i][2]
       IN  /\ Processed(t)
           /\ k \in DOMAIN InterventionsOf(all_trials[t])
           /\ QualifyingIntervention(all_trials[t], k)
           /\ \A j \in DOMAIN interventions : origin[j] = origin[i] => j = i
  /\ \A t \in DOMAIN all_trials :
       (Processed(t) /\ WellFormed(all_trials[t])) =>
         \A k \in DOMAIN InterventionsOf(all_trials[t]) :
           QualifyingIntervention(all_trials[t], k) =>
             \E i \in DOMAIN interventions : origin[i] = <<t, k>>

\* a row from an intervention of which only the second label matches, beside
\* a DRUG intervention that matches only an arm of the other trial
C2_OneLabelOfTwoMatches ==
  /\ pc = "analysis"
  /\ Len(all_trials) = 2
  /\ \E i \in DOMAIN interventions :
       LET iv == InterventionsOf(all_trials[origin[i][1]])[origin[i][2]]
       IN  /\ Len(iv["armGroupLabels"]) = 2
           /\ iv["armGroupLabels"][1] \notin ExperimentalLabelSet(all_trials[origin[i][1]])
  /\ \E t \in DOMAIN all_trials : \E k \in DOMAIN InterventionsOf(all_trials[t]) :
       /\ WellFormed(all_trials[t])
       /\ ~QualifyingIntervention(all_trials[t], k)
       /\ \E u \in DOMAIN all_trials :
            u # t /\ "A" \in ExperimentalLabelSet(all_trials[u])
                  /\ "A" \notin ExperimentalLabelSet(all_trials[t])

\* C8: a trial whose processing met a fault contributes no row at all.
C8_SkippedTrialEmitsNothing ==
  \A i \in DOMAIN origin : origin[i][1] \notin skipped

\* C9: in a trial with design section, sponsor name and nothing else missing,
\* every qualifying intervention gives a row whose phase is the first of the
\* phases, or "Unknown" when the phases are absent or an empty list.
C9_PhaseOrUnknown ==
  \A t \in DOMAIN all_trials :
    (Processed(t) /\ WellFormedButPhases(all_trials[t])) =>
      \A k \in DOMAIN InterventionsOf(all_trials[t]) :
        QualifyingIntervention(all_trials[t], k) =>
          \E i \in DOMAIN interventions :
            /\ origin[i] = <<t, k>>
            /\ interventions[i].phase =
                 IF PhasesOf(all_trials[t]) = <<>> THEN "Unknown"
                 ELSE PhasesOf(all_trials[t])[1]

\* --- table --------------------------------------------------------------
KeyOf(row) == <<row.drug, row.sponsor, row.phase>>

\* the positions of interventions whose key no earlier position has
FirstOccurrences ==
  {i \in DOMAIN interventions :
     \A j \in 1..(i - 1) : KeyOf(interventions[j]) # KeyOf(interventions[i])}

\* the p-th smallest element of a set of numbers
Nth(S, p) == CHOOSE i \in S : Cardinality({j \in S : j < i}) = p - 1

\* C3: the table holds no two rows with the same (drug, sponsor, phase),
\* one row for every key of the extracted rows, that row being the first
\* extracted row with the key, in the order of the first occurrences.
C3_FirstOccurrenceKept ==
  pc = "analysis" =>
    /\ Len(df.rows) = Cardinality(FirstOccurrences)
    /\ \A p \in DOMAIN df.rows : df.rows[p] = interventions[Nth(FirstOccurrences, p)]
    /\ \A p, q \in DOMAIN df.rows : KeyOf(df.rows[p]) = KeyOf(df.rows[q]) => p = q
    /\ \A i \in DOMAIN interventions :
         \E p \in DOMAIN df.rows : KeyOf(df.rows[p]) = KeyOf(interventions[i])

\* three rows, the third repeating the key of the first with another
\* description, a different key between them
C3_LaterDuplicateDropped ==
  /\ pc = "analysis"
  /\ Len(interventions) = 3
  /\ KeyOf(interventions[1]) = KeyOf(interventions[3])
  /\ KeyOf(interventions[1]) # KeyOf(interventions[2])
  /\ interventions[1].description # interventions[3].description
  /\ Len(df.rows) = 2

\* --- classification -----------------------------------------------------
\* the lines of the answer as pairs <<a, b>> of positions: a maximal stretch
\* a..b without line break (b = a - 1 for an empty line)
LinesOf(text) ==
  {ab \in (1..(Len(text) + 1)) \X (0..Len(text)) :
     /\ ab[2] >= ab[1] - 1
     /\ \A i \in ab[1]..ab[2] : text[i] # "\n"
     /\ ab[1] = 1 \/ text[ab[1] - 1] = "\n"
     /\ ab[2] = Len(text) \/ text[ab[2] + 1] = "\n"}

ColonLines(text) ==
  {ab \in LinesOf(text) : \E c \in ab[1]..ab[2] : text[c] = ":"}

FirstColon(text, ab) ==
  CHOOSE c \in ab[1]..ab[2] :
    text[c] = ":" /\ \A d \in ab[1]..(c - 1) : text[d] # ":"

\* text[a..b] without its leading and trailing blanks
Trimmed(text, a, b) ==
  LET solid == {i \in a..b : text[i] # " "}
  IN  IF solid = {} THEN <<>>
      ELSE SubSeq(text, CHOOSE i \in solid : \A j \in solid : i <= j,
                        CHOOSE i \in solid : \A j \in solid : j <= i)

LineKey(text, ab) == Trimmed(text, ab[1], FirstColon(text, ab) - 1)
LineValue(text, ab) == Trimmed(text, FirstColon(text, ab) + 1, ab[2])

\* C10: MoaMap has one key for every line with a colon, the trimmed text
\* before the line's first colon, and under it the trimmed text after the
\* first colon of the last line with that key; a line without colon adds
\* nothing.
C10_MoaMapParsing ==
  /\ DOMAIN moa_map = {LineKey(moa_labels, ab) : ab \in ColonLines(moa_labels)}
  /\ \A ab \in ColonLines(moa_labels) :
       (\A cd \in ColonLines(moa_labels) :
          LineKey(moa_labels, cd) = LineKey(moa_labels, ab) => cd[1] <= ab[1])
         => moa_map[LineKey(moa_labels, ab)] = LineValue(moa_labels, ab)

\* an answer of two colon lines with one key and different values, a second
\* colon staying inside the first value, and a table row to label
C10_RepeatedKeyAndSecondColon ==
  /\ pc = "chart"
  /\ Cardinality(ColonLines(moa_labels)) = 2
  /\ Cardinality(DOMAIN moa_map) = 1
  /\ \E ab, cd \in ColonLines(moa_labels) :
       /\ ab[1] < cd[1]
       /\ LineKey(moa_labels, ab) # <<>>
       /\ ":" \in Range(LineValue(moa_labels, ab))
       /\ LineValue(moa_labels, ab) # LineValue(moa_labels, cd)

Labelled == "moa" \in df.columns

\* C4: once the table is classified, no row has an empty moa.
C4_MoaNeverEmpty ==
  Labelled => \A i \in DOMAIN df.rows : df.rows[i].moa # <<>>

\* C5: once the table is classified, every row's moa is the MoaMap value
\* under the row's trimmed drug name when that is a key, and "Other" if not.
C5_LookupByTrimmedName ==
  Labelled =>
    \A i \in DOMAIN df.rows :
      LET name == Trimmed(df.rows[i].drug, 1, Len(df.rows[i].drug))
      IN  df.rows[i].moa = IF name \in DOMAIN moa_map THEN moa_map[name] ELSE Other

====
